---- MODULE Spec2Model ----
(***************************************************************************)
(* Battleship game engine of src/src/pages/Battleship.tsx together with    *)
(* the shot/result tracking hook src/src/hooks/useGameTracking.ts.         *)
(*                                                                         *)
(* The component is a React function component.  Every event (a click on   *)
(* a cell, a click on the "new game" button, a timer firing) runs one      *)
(* handler of the LAST COMMITTED RENDER and the state updates it queues    *)
(* are committed before the next event is handled.  A handler therefore    *)
(* reads the state of the render it was created in: a click handler reads  *)
(* the current committed state, while a function handed to setTimeout      *)
(* keeps the values of the render that scheduled it (its closure).         *)
(* Functional updaters (setX(prev => ...)) receive the committed state.    *)
(***************************************************************************)
EXTENDS Integers, Sequences, FiniteSets, Bags, TLC

(***************************************************************************)
(* Bounds of the model.  The program plays on a 10 x 10 board with the     *)
(* fleet [4,3,3,2,2,2,1,1,1,1] and 500 placement attempts per ship; the    *)
(* model keeps the code and scales these three down.                       *)
(***************************************************************************)
BOARD_SIZE == 3

SHIP_SIZES == <<2, 1>>

MaxAttempts == 2

Coords == (0 .. BOARD_SIZE - 1) \X (0 .. BOARD_SIZE - 1)

\* type Cell = { hasShip, hit, shipId? }; shipId 0 stands for "undefined"
EmptyCell == [hasShip |-> FALSE, hit |-> FALSE, shipId |-> 0]

createEmptyBoard == [c \in Coords |-> EmptyCell]

inBounds(x, y) == x >= 0 /\ y >= 0 /\ x < BOARD_SIZE /\ y < BOARD_SIZE

\* the cells a ship of the given size covers from anchor (x, y)
ShipCells(x, y, size, horizontal) ==
  { IF horizontal THEN <<x + i, y>> ELSE <<x, y + i>> : i \in 0 .. size - 1 }

canPlaceShip_NoDiagonal(board, x, y, size, horizontal) ==
  \A c \in ShipCells(x, y, size, horizontal) :
    /\ inBounds(c[1], c[2])
    /\ \A dx \in -1 .. 1 : \A dy \in -1 .. 1 :
         (dx = 0 \/ dy = 0) =>
           ~(inBounds(c[1] + dx, c[2] + dy) /\ board[<<c[1] + dx, c[2] + dy>>].hasShip)

canPlaceShip(board, x, y, size, horizontal) ==
  \A c \in ShipCells(x, y, size, horizontal) :
    /\ inBounds(c[1], c[2])
    /\ \A dx \in -1 .. 1 : \A dy \in -1 .. 1 :
         ~(inBounds(c[1] + dx, c[2] + dy) /\ board[<<c[1] + dx, c[2] + dy>>].hasShip)

\* Math.floor(Math.random() * n): any integer of 0 .. n-1
RandomBelow(n) == 0 .. n - 1

\* the anchors placeShipsRandomly can draw for a ship (lines 61-62)
DrawX(size, horizontal) == RandomBelow(IF horizontal THEN BOARD_SIZE - size + 1 ELSE BOARD_SIZE)

DrawY(size, horizontal) == RandomBelow(IF horizontal THEN BOARD_SIZE ELSE BOARD_SIZE - size + 1)

\* lines 64-69: write the ship onto the board and record it in the fleet
PutShip(board, x, y, size, horizontal, shipId) ==
  [c \in Coords |->
     IF c \in ShipCells(x, y, size, horizontal)
       THEN [hasShip |-> TRUE, hit |-> FALSE, shipId |-> shipId]
       ELSE board[c]]

AddShip(ships, shipId, size) ==
  [i \in DOMAIN ships \cup {shipId} |->
     IF i = shipId THEN [id |-> shipId, size |-> size, hits |-> 0] ELSE ships[i]]

NoShips == [i \in {} |-> [id |-> 0, size |-> 0, hits |-> 0]]

(***************************************************************************)
(* placeShipsRandomly as a loop: pl is the state of one call.              *)
(*   idx      index into SHIP_SIZES of the ship being placed               *)
(*   placed, attempts   the locals of the while loop                       *)
(*   pc       "loop" inside the for/while, "done" after the return         *)
(***************************************************************************)
PlaceStart ==
  [board |-> createEmptyBoard, ships |-> NoShips, shipId |-> 1,
   idx |-> 1, placed |-> FALSE, attempts |-> 0, pc |-> "loop"]

\* one iteration of the while loop (lines 58-72) with the three draws
PlaceIteration_SameId(p, horizontal, x, y) ==
  LET size == SHIP_SIZES[p.idx] IN
  IF ~canPlaceShip(p.board, x, y, size, horizontal)
    THEN [p EXCEPT !.attempts = p.attempts + 1]
    ELSE [p EXCEPT !.attempts = p.attempts + 1,
                   !.board = PutShip(p.board, x, y, size, horizontal, p.shipId),
                   !.ships = AddShip(p.ships, p.shipId, size),
                   !.placed = TRUE]

PlaceIteration(p, horizontal, x, y) ==
  LET size == SHIP_SIZES[p.idx] IN
  IF ~canPlaceShip(p.board, x, y, size, horizontal)
    THEN [p EXCEPT !.attempts = p.attempts + 1]
    ELSE [p EXCEPT !.attempts = p.attempts + 1,
                   !.board = PutShip(p.board, x, y, size, horizontal, p.shipId),
                   !.ships = AddShip(p.ships, p.shipId, size),
                   !.shipId = p.shipId + 1,
                   !.placed = TRUE]

\* the while condition of line 58
PlaceLoopCond(p) == ~p.placed /\ p.attempts < MaxAttempts

\* leaving the while loop: next size of the for loop, or return (line 75)
PlaceAdvance(p) ==
  IF p.idx < Len(SHIP_SIZES)
    THEN [p EXCEPT !.idx = p.idx + 1, !.placed = FALSE, !.attempts = 0]
    ELSE [p EXCEPT !.pc = "done"]

RECURSIVE PlaceRuns(_)
\* every state in which a call of placeShipsRandomly can return
PlaceRuns(p) ==
  IF p.pc = "done" THEN {p}
  ELSE IF PlaceLoopCond(p)
    THEN UNION { PlaceRuns(PlaceIteration(p, h, x, y)) :
                   <<h, x, y>> \in { t \in BOOLEAN \X (0 .. BOARD_SIZE - 1) \X (0 .. BOARD_SIZE - 1) :
                                       /\ t[2] \in DrawX(SHIP_SIZES[p.idx], t[1])
                                       /\ t[3] \in DrawY(SHIP_SIZES[p.idx], t[1]) } }
    ELSE PlaceRuns(PlaceAdvance(p))

\* the possible return values { board, ships } of placeShipsRandomly
placeShipsRandomly == { [board |-> p.board, ships |-> p.ships] : p \in PlaceRuns(PlaceStart) }

(***************************************************************************)
(* Shot resolution and win check                                           *)
(***************************************************************************)
\* cloneBoard copies every cell; registerHit then works on the copy
cloneBoard_Fresh(board) == [c \in Coords |-> [board[c] EXCEPT !.hit = FALSE]]

cloneBoard(board) == [c \in Coords |-> board[c]]

\* line 228: the test of registerHit for an already fired cell
AlreadyFired_Never(cell) == FALSE

AlreadyFired(cell) == cell.hit

\* lines 232-233: the copy of the ship with one more hit
HitShip_Twice(ship) == [ship EXCEPT !.hits = @ + 2]

HitShip(ship) == [ship EXCEPT !.hits = @ + 1]

\* line 234: the test for a sunk ship
IsSunk_Beyond(ship) == ship.hits > ship.size

IsSunk(ship) == ship.hits >= ship.size

\* line 229: the cell of the copy is marked as fired
MarkFired_ClearShip(board, x, y) ==
  [board EXCEPT ![<<x, y>>] = [hasShip |-> FALSE, hit |-> TRUE, shipId |-> @.shipId]]

MarkFired(board, x, y) == [board EXCEPT ![<<x, y>>].hit = TRUE]

\* Outside the board, board[y] is undefined when y is not a row (line 225)
\* and next[y][x] is undefined when x is not a column (lines 227-228): the
\* property read throws a TypeError and registerHit returns nothing.
registerHit(board, ships, x, y) ==
  LET next == cloneBoard(board)
      cell == next[<<x, y>>]
  IN IF ~inBounds(x, y)
       THEN [board |-> board, ships |-> ships, result |-> "TypeError"]
     ELSE IF AlreadyFired(cell)
       THEN [board |-> next, ships |-> ships, result |-> "repeat"]
       ELSE LET marked == MarkFired(next, x, y)
            IN IF cell.hasShip /\ cell.shipId # 0
                 THEN LET ship == HitShip(ships[cell.shipId])
                          sunk == IsSunk(ship)
                          updated == [ships EXCEPT ![ship.id] = ship]
                      IN [board |-> marked, ships |-> updated,
                          result |-> IF sunk THEN "sunk" ELSE "hit"]
                 ELSE [board |-> marked, ships |-> ships, result |-> "miss"]

checkWin_Beyond(ships) == \A i \in DOMAIN ships : ships[i].hits > ships[i].size

checkWin_Some(ships) == \E i \in DOMAIN ships : ships[i].hits >= ships[i].size

checkWin(ships) == \A i \in DOMAIN ships : ships[i].hits >= ships[i].size

(***************************************************************************)
(* The game session                                                        *)
(***************************************************************************)
VARIABLES
  playerBoard, cpuBoard,     \* useState<Board>
  playerShips, cpuShips,     \* useState<Record<number, Ship>>
  playerTurn,                \* useState(true)
  gameOver,                  \* useState<null | "player" | "cpu">, "null" for null
  playerShots, computerShots,\* useGameTracking: useState(0)
  gameStartTime,             \* useGameTracking: useRef, TRUE once set
  timers,                    \* bag of pending setTimeout(cpuFire, 700) closures
  saved,                     \* rows saveGameResult inserted since the last newGame
  last,                      \* the handler that ran last and what it did
  pl,                        \* state of a call of placeShipsRandomly
  chain                      \* part_000: cells its cpuFire fired at since the player's last shot

gameVars == <<playerBoard, cpuBoard, playerShips, cpuShips, playerTurn, gameOver,
              playerShots, computerShots, gameStartTime, timers, saved, last, chain>>

vars == <<playerBoard, cpuBoard, playerShips, cpuShips, playerTurn, gameOver,
          playerShots, computerShots, gameStartTime, timers, saved, last, pl, chain>>

\* pending CPU shots the model lets accumulate
MaxPending == 2

\* shots per game, both sides together
MaxShots == 3

\* shots after which a game with a CPU shot pending is no longer abandoned
MaxAbandon == 1

\* The fleets the session model starts its games from: the returns of
\* placeShipsRandomly whose first ship was drawn horizontal at (0, 0) and whose
\* later ships, where placed, lie in the last row and column.  On the scaled
\* board these are a complete fleet and a fleet whose last ship was left out.
Far == BOARD_SIZE - 1

Layouts ==
  { r \in placeShipsRandomly :
      /\ r.board[<<0, 0>>].shipId = 1 /\ r.board[<<1, 0>>].shipId = 1
      /\ \A c \in Coords : r.board[c].shipId > 1 => c = <<Far, Far>> }

\* what a function created in the current render sees of the state
\* (cpuFire reads gameOver; saveGameResult reads playerShots, computerShots);
\* stale is bookkeeping: the closure belongs to a game that newGame replaced
Closure == [gameOver |-> gameOver, playerShots |-> playerShots,
            computerShots |-> computerShots, stale |-> FALSE]

\* saveGameResult(winner) of the render described by closure cl
saveGameResult(cl, winner) ==
  IF ~gameStartTime
    THEN saved
    ELSE Append(saved, [winner |-> IF winner = "player" THEN "player" ELSE "computer",
                        player_shots |-> cl.playerShots,
                        computer_shots |-> cl.computerShots,
                        status |-> "pending"])   \* line 35: the insert is awaited

\* bookkeeping only: newGame leaves the pending timers alone (it calls no
\* clearTimeout); the model notes on each that its game has been replaced
MarkStale(bag) ==
  LET old(d) == [d EXCEPT !.stale = FALSE]
      cnt(d) == IF d \in DOMAIN bag THEN bag[d] ELSE 0
  IN [d \in { [c EXCEPT !.stale = TRUE] : c \in DOMAIN bag } |-> cnt(d) + cnt(old(d))]

newGame_NoTracking ==
  \E p \in Layouts, c \in Layouts :
    /\ playerBoard' = p.board
    /\ cpuBoard' = c.board
    /\ playerShips' = p.ships
    /\ cpuShips' = c.ships
    /\ playerTurn' = TRUE
    /\ gameOver' = "null"
    /\ timers' = MarkStale(timers)
    /\ saved' = << >>
    /\ last' = [op |-> "newGame", result |-> "none", stale |-> FALSE]
    /\ UNCHANGED <<gameStartTime, playerShots, computerShots, pl, chain>>

newGame ==
  \E p \in Layouts, c \in Layouts :
    /\ playerBoard' = p.board
    /\ cpuBoard' = c.board
    /\ playerShips' = p.ships
    /\ cpuShips' = c.ships
    /\ playerTurn' = TRUE
    /\ gameOver' = "null"
    /\ gameStartTime' = TRUE
    /\ playerShots' = 0
    /\ computerShots' = 0
    /\ timers' = MarkStale(timers)
    /\ saved' = << >>
    /\ last' = [op |-> "newGame", result |-> "none", stale |-> FALSE]
    /\ UNCHANGED <<pl, chain>>

\* line 246: the early return of playerFire
PlayerFireRejects_GameOverOnly == gameOver # "null"

PlayerFireRejects == gameOver # "null" \/ ~playerTurn

\* lines 267-273: playerTurn after a player shot that did not win
TurnAfterPlayerShot_Never(result) == FALSE

TurnAfterPlayerShot_Keep(result) == TRUE

TurnAfterPlayerShot_HitOnly(result) == result = "hit"

TurnAfterPlayerShot(result) == result # "miss"

\* lines 310-316: playerTurn after a CPU shot that did not win
TurnAfterCpuShot_Never(result) == FALSE

TurnAfterCpuShot(result) == result = "miss"

\* line 300: a CPU shot calls incrementComputerShots (useGameTracking 22-24)
\* and leaves the player's counter alone
ShotsAfterCpuShot_Player == [player |-> playerShots + 1, computer |-> computerShots]

ShotsAfterCpuShot == [player |-> playerShots, computer |-> computerShots + 1]

\* playerFire(x, y) of the current render (lines 245-274)
playerFire(x, y) ==
  IF PlayerFireRejects
    THEN /\ last' = [op |-> "playerFire", result |-> "rejected", stale |-> FALSE]
         /\ UNCHANGED <<playerBoard, cpuBoard, playerShips, cpuShips, playerTurn, gameOver,
                        playerShots, computerShots, gameStartTime, timers, saved, pl, chain>>
    ELSE LET r == registerHit(cpuBoard, cpuShips, x, y) IN
         IF r.result = "TypeError"
           \* line 247 throws: the handler ends before its first setter (line 248)
           THEN /\ last' = [op |-> "playerFire", result |-> "TypeError", stale |-> FALSE]
                /\ UNCHANGED <<playerBoard, cpuBoard, playerShips, cpuShips, playerTurn, gameOver,
                               playerShots, computerShots, gameStartTime, timers, saved, pl, chain>>
           ELSE
         /\ cpuBoard' = r.board
         /\ cpuShips' = r.ships
         /\ playerShots' = playerShots + 1
         /\ IF checkWin(r.ships)
              THEN /\ gameOver' = "player"
                   /\ saved' = saveGameResult(Closure, "player")
                   /\ UNCHANGED <<playerTurn, timers>>
              ELSE /\ playerTurn' = TurnAfterPlayerShot(r.result)
                   /\ timers' = IF r.result = "miss"
                                  THEN timers (+) SetToBag({Closure})  \* setTimeout(cpuFire, 700)
                                  ELSE timers
                   /\ UNCHANGED <<gameOver, saved>>
         /\ last' = [op |-> "playerFire", result |-> r.result, stale |-> FALSE]
         /\ UNCHANGED <<playerBoard, playerShips, computerShots, gameStartTime, pl, chain>>

\* the Grid of the CPU board (line 375, line 145): a cell's button is disabled
\* when it is not the player's turn, the game is over or the cell is fired
CellEnabled(x, y) == ~(~playerTurn \/ gameOver # "null") /\ ~cpuBoard[<<x, y>>].hit

\* a click on an enabled cell of the CPU board runs playerFire
Click ==
  \E c \in Coords :
    /\ CellEnabled(c[1], c[2])
    /\ playerShots + computerShots < MaxShots
    /\ playerFire(c[1], c[2])
    /\ BagCardinality(timers') <= MaxPending

\* lines 282-287: the cells of the board the updater receives that are not fired
Candidates_All(board) == Coords

Candidates(board) == { c \in Coords : ~board[c].hit }

\* line 277: the early return of cpuFire reads the gameOver of its own render
CpuFireRejects(cl) == cl.gameOver # "null"

\* a pending timer fires: cpuFire of the render that scheduled it (lines 276-325).
\* The updater of setPlayerBoard receives the committed board and the updater
\* of setPlayerShips the committed fleet; gameOver and saveGameResult are the
\* ones of the closure.
cpuFire(cl) ==
  LET candidates == Candidates(playerBoard) IN
  /\ IF CpuFireRejects(cl)
       THEN /\ last' = [op |-> "cpuFire", result |-> "rejected", stale |-> cl.stale]
            /\ timers' = timers (-) SetToBag({cl})
            /\ UNCHANGED <<playerBoard, playerShips, playerTurn, gameOver, playerShots, computerShots, saved>>
       ELSE IF candidates = {}
         THEN /\ last' = [op |-> "cpuFire", result |-> "none", stale |-> cl.stale]
              /\ timers' = timers (-) SetToBag({cl})
              /\ UNCHANGED <<playerBoard, playerShips, playerTurn, gameOver, playerShots, computerShots, saved>>
         ELSE \E pick \in candidates :
                LET r == registerHit(playerBoard, playerShips, pick[1], pick[2]) IN
                /\ playerShips' = r.ships
                /\ computerShots' = ShotsAfterCpuShot.computer
                /\ playerShots' = ShotsAfterCpuShot.player
                /\ IF checkWin(r.ships)
                     THEN /\ gameOver' = "cpu"
                          /\ saved' = saveGameResult(cl, "cpu")
                          /\ timers' = timers (-) SetToBag({cl})
                          /\ UNCHANGED playerTurn
                     ELSE /\ playerTurn' = TurnAfterCpuShot(r.result)
                          \* on hit or sunk setTimeout(cpuFire, 700): the same closure again
                          /\ timers' = IF r.result = "miss"
                                         THEN timers (-) SetToBag({cl})
                                         ELSE timers
                          /\ UNCHANGED <<gameOver, saved>>
                \* line 322: the board of a second registerHit on the same board
                /\ playerBoard' = registerHit(playerBoard, playerShips, pick[1], pick[2]).board
                /\ last' = [op |-> "cpuFire", result |-> r.result, stale |-> cl.stale]
  /\ UNCHANGED <<cpuBoard, cpuShips, gameStartTime, pl, chain>>

TimerFires ==
  \E cl \in BagToSet(timers) :
    /\ playerShots + computerShots < MaxShots
    /\ cpuFire(cl)

\* A click on the "new game" button (line 352).  The model follows the games
\* the player abandons with a CPU shot pending only when that happens within
\* MaxAbandon shots of their start; with no shot pending, at any time.
NewGameClick ==
  /\ (timers # EmptyBag => playerShots + computerShots <= MaxAbandon)
  /\ newGame

\* the state after the component is mounted: useState initial values
\* (lines 166-172, useGameTracking 8-10) followed by the effect of line 214
Init ==
  /\ \E p \in Layouts, c \in Layouts :
       /\ playerBoard = p.board
       /\ cpuBoard = c.board
       /\ playerShips = p.ships
       /\ cpuShips = c.ships
  /\ playerTurn = TRUE
  /\ gameOver = "null"
  /\ playerShots = 0
  /\ computerShots = 0
  /\ gameStartTime = TRUE
  /\ timers = EmptyBag
  /\ saved = << >>
  /\ last = [op |-> "newGame", result |-> "none", stale |-> FALSE]
  /\ pl = PlaceStart
  /\ chain = {}

Next == Click \/ TimerFires \/ NewGameClick

Spec == Init /\ [][Next]_vars

(***************************************************************************)
(* SpecChain: games played to their end.  Every enabled cell can be        *)
(* clicked and every pending timer fires, with no cap on the shots (a game  *)
(* has at most 2 * BOARD_SIZE^2 of them); "new game" is clicked only while  *)
(* no CPU shot is pending, the abandoned games being those of Spec.         *)
(***************************************************************************)
ClickFree ==
  \E c \in Coords :
    /\ CellEnabled(c[1], c[2])
    /\ playerFire(c[1], c[2])

TimerFiresFree == \E cl \in BagToSet(timers) : cpuFire(cl)

NewGameIdle == timers = EmptyBag /\ newGame

NextChain == ClickFree \/ TimerFiresFree \/ NewGameIdle

SpecChain == Init /\ [][NextChain]_vars

(***************************************************************************)
(* SpecCpu: the CPU's shots in full, the player's in part.  The player      *)
(* clicks only the cells of FewCells, enough to miss, to hit and to hand    *)
(* the turn over; timers and "new game" are those of Spec.                  *)
(***************************************************************************)
FewCells == { <<0, 0>>, <<0, 1>>, <<1, 1>> }

ClickFew ==
  \E c \in FewCells :
    /\ CellEnabled(c[1], c[2])
    /\ playerShots + computerShots < MaxShots
    /\ playerFire(c[1], c[2])
    /\ BagCardinality(timers') <= MaxPending

NextCpu == ClickFew \/ TimerFires \/ NewGameClick

SpecCpu == Init /\ [][NextCpu]_vars

(***************************************************************************)
(* SpecLive: one game, "new game" never clicked, in which every scheduled   *)
(* timer fires: setTimeout(cpuFire, 700) runs its callback 700 ms later      *)
(* whatever else happens, hence weak fairness of the timers.  No cap on the  *)
(* shots; the player clicks the cells of FewCells.                           *)
(***************************************************************************)
ClickFewFree ==
  \E c \in FewCells :
    /\ CellEnabled(c[1], c[2])
    /\ playerFire(c[1], c[2])

NextLive == ClickFewFree \/ TimerFiresFree

SpecLive == Init /\ [][NextLive]_vars /\ WF_vars(TimerFiresFree)

(***************************************************************************)
(* SpecOld: the earlier version of the component, src/unnamed/part_000.     *)
(* It has no shot counters and saves nothing, and its cpuFire calls          *)
(* setPlayerBoard and setPlayerShips with values computed from the           *)
(* playerBoard and playerShips of its own render; the timer it re-arms       *)
(* after a hit runs that same cpuFire again.  registerHit, checkWin and      *)
(* placeShipsRandomly are those of the current version.                      *)
(***************************************************************************)
ClosureOld == [gameOver |-> gameOver, playerBoard |-> playerBoard,
               playerShips |-> playerShips, stale |-> FALSE]

\* part_000 lines 164-174
newGameOld ==
  \E p \in Layouts, c \in Layouts :
    /\ playerBoard' = p.board
    /\ cpuBoard' = c.board
    /\ playerShips' = p.ships
    /\ cpuShips' = c.ships
    /\ playerTurn' = TRUE
    /\ gameOver' = "null"
    /\ timers' = MarkStale(timers)
    /\ chain' = {}
    /\ last' = [op |-> "newGame", result |-> "none", stale |-> FALSE]
    /\ UNCHANGED <<playerShots, computerShots, gameStartTime, saved, pl>>

\* part_000 lines 209-236
playerFireOld(x, y) ==
  IF PlayerFireRejects
    THEN /\ last' = [op |-> "playerFire", result |-> "rejected", stale |-> FALSE]
         /\ UNCHANGED <<playerBoard, cpuBoard, playerShips, cpuShips, playerTurn, gameOver,
                        playerShots, computerShots, gameStartTime, timers, saved, pl, chain>>
    ELSE LET r == registerHit(cpuBoard, cpuShips, x, y) IN
         /\ cpuBoard' = r.board
         /\ cpuShips' = r.ships
         /\ IF checkWin(r.ships)
              THEN /\ gameOver' = "player"
                   /\ UNCHANGED <<playerTurn, timers, chain>>
              ELSE /\ playerTurn' = TurnAfterPlayerShot(r.result)
                   /\ timers' = IF r.result = "miss"
                                  THEN timers (+) SetToBag({ClosureOld})
                                  ELSE timers
                   /\ chain' = IF r.result = "miss" THEN {} ELSE chain
                   /\ UNCHANGED gameOver
         /\ last' = [op |-> "playerFire", result |-> r.result, stale |-> FALSE]
         /\ UNCHANGED <<playerBoard, playerShips, playerShots, computerShots,
                        gameStartTime, saved, pl>>

\* part_000 lines 238-269: board, fleet and gameOver are those of the closure
cpuFireOld(cl) ==
  LET candidates == Candidates(cl.playerBoard) IN
  /\ IF cl.gameOver # "null" \/ candidates = {}
       THEN /\ last' = [op |-> "cpuFire", result |-> "none", stale |-> cl.stale]
            /\ timers' = timers (-) SetToBag({cl})
            /\ UNCHANGED <<playerBoard, playerShips, playerTurn, gameOver, chain>>
       ELSE \E pick \in candidates :
              LET r == registerHit(cl.playerBoard, cl.playerShips, pick[1], pick[2]) IN
              /\ playerBoard' = r.board
              /\ playerShips' = r.ships
              /\ chain' = chain \cup {pick}
              /\ IF checkWin(r.ships)
                   THEN /\ gameOver' = "cpu"
                        /\ timers' = timers (-) SetToBag({cl})
                        /\ UNCHANGED playerTurn
                   ELSE /\ playerTurn' = TurnAfterCpuShot(r.result)
                        /\ timers' = IF r.result = "miss"
                                       THEN timers (-) SetToBag({cl})
                                       ELSE timers
                        /\ UNCHANGED gameOver
              /\ last' = [op |-> "cpuFire", result |-> r.result, stale |-> cl.stale]
  /\ UNCHANGED <<cpuBoard, cpuShips, playerShots, computerShots, gameStartTime, saved, pl>>

\* part_000 lines 129-130, 304: a click on an enabled cell of the CPU board
ClickFewOld ==
  \E c \in FewCells :
    /\ CellEnabled(c[1], c[2])
    /\ playerFireOld(c[1], c[2])

TimerFiresOld == \E cl \in BagToSet(timers) : cpuFireOld(cl)

NewGameIdleOld == timers = EmptyBag /\ newGameOld

\* part_000 lines 145-150 followed by the effect of line 180
InitOld ==
  /\ \E p \in Layouts, c \in Layouts :
       /\ playerBoard = p.board
       /\ cpuBoard = c.board
       /\ playerShips = p.ships
       /\ cpuShips = c.ships
  /\ playerTurn = TRUE
  /\ gameOver = "null"
  /\ playerShots = 0
  /\ computerShots = 0
  /\ gameStartTime = FALSE
  /\ timers = EmptyBag
  /\ saved = << >>
  /\ last = [op |-> "newGame", result |-> "none", stale |-> FALSE]
  /\ pl = PlaceStart
  /\ chain = {}

NextOld == ClickFewOld \/ TimerFiresOld \/ NewGameIdleOld

SpecOld == InitOld /\ [][NextOld]_vars

(***************************************************************************)
(* SpecSave: the game together with the end of the inserts it started.     *)
(* The request of line 35 ends some time after saveGameResult was called:   *)
(* with no error, with an error in its result, or by throwing.  The model   *)
(* follows the inserts of the current game.                                 *)
(***************************************************************************)
InsertOutcomes == {"ok", "error", "thrown"}

\* lines 46-61: what runs when the awaited insert ends.  An error shows a
\* toast (lines 46-52), success another (lines 53-58), an exception is
\* logged (lines 59-61); no setter of the game or of the counters is called.
InsertSettles_Retry ==
  \E k \in DOMAIN saved, outcome \in InsertOutcomes :
    /\ saved[k].status = "pending"
    /\ saved' = [saved EXCEPT ![k].status = outcome]
    /\ gameOver' = IF outcome = "ok" THEN gameOver ELSE "null"
    /\ last' = [op |-> "insertSettled", result |-> outcome, stale |-> FALSE]
    /\ UNCHANGED <<playerBoard, cpuBoard, playerShips, cpuShips, playerTurn,
                   playerShots, computerShots, gameStartTime, timers, pl, chain>>

InsertSettles ==
  \E k \in DOMAIN saved, outcome \in InsertOutcomes :
    /\ saved[k].status = "pending"
    /\ saved' = [saved EXCEPT ![k].status = outcome]
    /\ last' = [op |-> "insertSettled", result |-> outcome, stale |-> FALSE]
    /\ UNCHANGED <<playerBoard, cpuBoard, playerShips, cpuShips, playerTurn, gameOver,
                   playerShots, computerShots, gameStartTime, timers, pl, chain>>

NextSave == Click \/ TimerFires \/ NewGameClick \/ InsertSettles

SpecSave == Init /\ [][NextSave]_vars

(***************************************************************************)
(* SpecOutside: playerFire invoked with any pair of numbers, the            *)
(* coordinates next to the board included.                                  *)
(***************************************************************************)
OutsideCoords == { <<BOARD_SIZE, 0>>, <<0, BOARD_SIZE>>, <<-1, 0>>, <<0, -1>> }

CallOutside ==
  \E c \in Coords \cup OutsideCoords :
    /\ playerShots + computerShots < MaxShots
    /\ playerFire(c[1], c[2])
    /\ BagCardinality(timers') <= MaxPending

NextOutside == CallOutside \/ TimerFires \/ NewGameClick

SpecOutside == Init /\ [][NextOutside]_vars

(***************************************************************************)
(* SpecCalls: playerFire invoked as a function, whatever the Grid shows    *)
(* (a click handled before the render that disables the button commits,    *)
(* or a caller other than the Grid).                                       *)
(***************************************************************************)
Call ==
  \E c \in Coords :
    /\ playerShots + computerShots < MaxShots
    /\ playerFire(c[1], c[2])
    /\ BagCardinality(timers') <= MaxPending

NextCalls == Call \/ TimerFires \/ NewGameClick

SpecCalls == Init /\ [][NextCalls]_vars

(***************************************************************************)
(* SpecPlace: one call of placeShipsRandomly, one loop iteration a step    *)
(***************************************************************************)
PlaceTry ==
  /\ pl.pc = "loop"
  /\ PlaceLoopCond(pl)
  /\ \E horizontal \in BOOLEAN :
       \E x \in DrawX(SHIP_SIZES[pl.idx], horizontal), y \in DrawY(SHIP_SIZES[pl.idx], horizontal) :
         pl' = PlaceIteration(pl, horizontal, x, y)
  /\ UNCHANGED gameVars

PlaceNext ==
  /\ pl.pc = "loop"
  /\ ~PlaceLoopCond(pl)
  /\ pl' = PlaceAdvance(pl)
  /\ UNCHANGED gameVars

\* the component before its first effect: the useState initial values
InitPlace ==
  /\ playerBoard = createEmptyBoard
  /\ cpuBoard = createEmptyBoard
  /\ playerShips = NoShips
  /\ cpuShips = NoShips
  /\ playerTurn = TRUE
  /\ gameOver = "null"
  /\ playerShots = 0
  /\ computerShots = 0
  /\ gameStartTime = FALSE
  /\ timers = EmptyBag
  /\ saved = << >>
  /\ last = [op |-> "none", result |-> "none", stale |-> FALSE]
  /\ pl = PlaceStart
  /\ chain = {}

NextPlace == PlaceTry \/ PlaceNext

SpecPlace == InitPlace /\ [][NextPlace]_vars

(***************************************************************************)
(* Properties                                                              *)
(***************************************************************************)
Definitive == {"miss", "hit", "sunk"}

\* a fleet is fully sunk when every ship has as many hits as cells
FullySunk(ships) == \A i \in DOMAIN ships : ships[i].hits = ships[i].size

PlayerShotStep == last'.op = "playerFire" /\ playerShots' = playerShots + 1

CpuShotStep == last'.op = "cpuFire" /\ computerShots' = computerShots + 1

\* C1: after an accepted shot that leaves the target fleet not fully sunk, a
\* miss passes the turn to the other side and a hit or sunk keeps it with
\* the side that fired.
C1_TurnRule ==
  [][ /\ (PlayerShotStep /\ last'.result \in Definitive /\ ~FullySunk(cpuShips'))
         => (playerTurn' = (last'.result # "miss"))
      /\ (CpuShotStep /\ last'.result \in Definitive /\ ~FullySunk(playerShips'))
         => (playerTurn' = (last'.result = "miss")) ]_vars

C1_Witness ==
  /\ last.op = "cpuFire" /\ last.result = "hit"
  /\ ~FullySunk(playerShips) /\ ~playerTurn /\ gameOver = "null"

\* C2: once the outcome is playerWon or cpuWon, no handler other than newGame
\* changes a board, a fleet, the turn or the outcome.
C2_GameOverTerminal ==
  [][ (gameOver # "null" /\ last'.op # "newGame")
        => UNCHANGED <<playerBoard, cpuBoard, playerShips, cpuShips, playerTurn, gameOver>> ]_vars

\* C3: a CPU shot scheduled in a game that newGame has since replaced changes
\* nothing of the new game when it fires: player board, player fleet, turn,
\* outcome and CPU shot counter stay as they are.
C3_StaleShotNoEffect ==
  [][ (last'.op = "cpuFire" /\ last'.stale)
        => UNCHANGED <<playerBoard, playerShips, playerTurn, gameOver, computerShots>> ]_vars

\* C4: playerFire invoked while it is the CPU's turn changes neither the CPU
\* board, the CPU fleet, the turn, the outcome nor the player's shot counter,
\* and schedules no CPU shot.
C4_ClickOnCpuTurnRejected ==
  [][ (~playerTurn /\ last'.op = "playerFire")
        => UNCHANGED <<cpuBoard, cpuShips, playerTurn, gameOver, playerShots, timers>> ]_vars

C4_Witness ==
  /\ last.op = "playerFire" /\ last.result = "rejected"
  /\ ~playerTurn /\ gameOver = "null" /\ timers # EmptyBag

\* C5: in every game saveGameResult is invoked at most once, and exactly once
\* when the game is over.
C5_SavedOncePerGame ==
  /\ Len(saved) <= 1
  /\ gameOver # "null" => Len(saved) = 1

\* C6: the row saveGameResult inserts carries the number of shots each side
\* fired in the game, the game-ending shot included, and the session outcome.
C6_SavedCountsAreFinal ==
  [][ Len(saved') > Len(saved)
        => LET row == saved'[Len(saved')] IN
           /\ row.player_shots = playerShots'
           /\ row.computer_shots = computerShots'
           /\ row.winner = (IF gameOver' = "player" THEN "player" ELSE "computer") ]_vars

\* C7: the shot that sinks the last ship of the target fleet ends the game in
\* that step with the firer as winner, without passing the turn or scheduling
\* a shot; and playerWon implies the CPU fleet is fully sunk, cpuWon that the
\* player fleet is.
C7_WinCheckedEveryShot ==
  /\ [](gameOver = "player" => FullySunk(cpuShips))
  /\ [](gameOver = "cpu" => FullySunk(playerShips))
  /\ [][ /\ (PlayerShotStep /\ ~FullySunk(cpuShips) /\ FullySunk(cpuShips'))
            => (gameOver' = "player" /\ playerTurn' = playerTurn /\ timers' = timers)
         /\ (CpuShotStep /\ ~FullySunk(playerShips) /\ FullySunk(playerShips'))
            => (gameOver' = "cpu" /\ playerTurn' = playerTurn
                /\ BagCardinality(timers') < BagCardinality(timers)) ]_vars

C7_Witness ==
  /\ gameOver = "cpu" /\ last.op = "cpuFire" /\ last.result = "sunk"
  /\ FullySunk(playerShips) /\ ~FullySunk(cpuShips)

RECURSIVE SumSizes(_)
SumSizes(sizes) == IF sizes = << >> THEN 0 ELSE Head(sizes) + SumSizes(Tail(sizes))

\* the sizes of a fleet, as a bag
FleetSizes(ships) ==
  LET S == { ships[i].size : i \in DOMAIN ships } IN
  [z \in S |-> Cardinality({ i \in DOMAIN ships : ships[i].size = z })]

ListSizes(sizes) ==
  LET S == { sizes[i] : i \in DOMAIN sizes } IN
  [z \in S |-> Cardinality({ i \in DOMAIN sizes : sizes[i] = z })]

\* C8: a fleet returned by placeShipsRandomly has one ship per entry of
\* SHIP_SIZES, with those sizes, and its board has as many occupied cells as
\* the sizes add up to.
C8_FleetComplete ==
  pl.pc = "done" =>
    /\ Cardinality(DOMAIN pl.ships) = Len(SHIP_SIZES)
    /\ FleetSizes(pl.ships) = ListSizes(SHIP_SIZES)
    /\ Cardinality({ c \in Coords : pl.board[c].hasShip }) = SumSizes(SHIP_SIZES)

Abs(n) == IF n < 0 THEN -n ELSE n

Chebyshev(a, b) ==
  IF Abs(a[1] - b[1]) > Abs(a[2] - b[2]) THEN Abs(a[1] - b[1]) ELSE Abs(a[2] - b[2])

\* C9: on a board of placeShipsRandomly any two occupied cells of different
\* ships are at Chebyshev distance 2 or more.
C9_ShipsApart ==
  \A a \in Coords, b \in Coords :
    (pl.board[a].hasShip /\ pl.board[b].hasShip /\ pl.board[a].shipId # pl.board[b].shipId)
      => Chebyshev(a, b) >= 2

C9_Witness ==
  /\ pl.pc = "done"
  /\ \E a \in Coords, b \in Coords : pl.board[a].shipId = 1 /\ pl.board[b].shipId = 2

\* registerHit twice at the same cell of a board and its fleet
RepeatLaw(board, ships) ==
  \A c \in Coords :
    LET r1 == registerHit(board, ships, c[1], c[2])
        r2 == registerHit(r1.board, r1.ships, c[1], c[2])
    IN /\ board[c].hit => (r1.result = "repeat" /\ r1.board = board /\ r1.ships = ships)
       /\ ~board[c].hit => r1.result \in Definitive
       /\ r2.result = "repeat" /\ r2.board = r1.board /\ r2.ships = r1.ships

\* C10: registerHit on a fired cell returns repeat with the board and the fleet
\* it was given; a second registerHit at the same cell returns repeat after a
\* first that returned miss, hit or sunk, and changes nothing.
C10_RepeatChangesNothing ==
  /\ [](RepeatLaw(playerBoard, playerShips) /\ RepeatLaw(cpuBoard, cpuShips))
  /\ [][ (last'.op = "playerFire" /\ last'.result = "repeat")
           => (cpuBoard' = cpuBoard /\ cpuShips' = cpuShips) ]_vars

C10_Witness ==
  /\ last.op = "playerFire" /\ last.result = "repeat"
  /\ \E c \in Coords : cpuBoard[c].hit /\ cpuBoard[c].hasShip

\* C11: registerHit on an unfired cell returns miss and the fleet it was given
\* when the cell is empty; on an occupied cell it adds one hit to the ship of
\* that cell and to no other, and returns sunk when the hits reach the size
\* of the ship and hit otherwise.
FreshShotLaw(board, ships) ==
  \A c \in Coords :
    ~board[c].hit =>
      LET r == registerHit(board, ships, c[1], c[2])
          k == board[c].shipId
      IN IF ~board[c].hasShip
           THEN r.result = "miss" /\ r.ships = ships
           ELSE /\ DOMAIN r.ships = DOMAIN ships
                /\ r.ships[k].hits = ships[k].hits + 1
                /\ r.ships[k].size = ships[k].size /\ r.ships[k].id = ships[k].id
                /\ \A j \in DOMAIN ships \ {k} : r.ships[j] = ships[j]
                /\ r.result = (IF ships[k].hits + 1 = ships[k].size THEN "sunk" ELSE "hit")

C11_FreshShotOutcome ==
  FreshShotLaw(playerBoard, playerShips) /\ FreshShotLaw(cpuBoard, cpuShips)

C11_Witness ==
  /\ last.op = "playerFire" /\ last.result = "hit"
  /\ \E i \in DOMAIN cpuShips : cpuShips[i].hits = 1 /\ cpuShips[i].size = 2
  /\ \E c \in Coords : cpuBoard[c].hit /\ ~cpuBoard[c].hasShip

\* the player has fired only at occupied cells and the CPU has not fired
PlayerOnlyHits ==
  /\ computerShots = 0
  /\ \A c \in Coords : cpuBoard[c].hit => cpuBoard[c].hasShip

AllOccupiedFired(board) == \A c \in Coords : board[c].hasShip => board[c].hit

\* C12: in a game in which the player has fired only at occupied cells of the
\* CPU board, in any order, the player has the turn after every shot, the
\* game is in progress until every occupied cell is fired and then won by the
\* player; the final board, fleet, counter and saved row are the same
\* whatever the order.
C12_SinkWholeFleet ==
  PlayerOnlyHits =>
    /\ playerTurn
    /\ playerShots = Cardinality({ c \in Coords : cpuBoard[c].hit })
    /\ IF AllOccupiedFired(cpuBoard)
         THEN /\ gameOver = "player"
              /\ \A i \in DOMAIN cpuShips : cpuShips[i].hits = cpuShips[i].size
              /\ Len(saved) = 1 /\ saved[1].winner = "player"
         ELSE gameOver = "null" /\ saved = << >>

C12_Witness ==
  /\ PlayerOnlyHits /\ AllOccupiedFired(cpuBoard)
  /\ playerShots = SumSizes(SHIP_SIZES) /\ gameOver = "player"

\* C13: within a game a fired cell of either board stays fired: only newGame
\* takes a fired flag away.
C13_FiredMonotonic ==
  [][ last'.op # "newGame"
        => \A c \in Coords : /\ playerBoard[c].hit => playerBoard'[c].hit
                             /\ cpuBoard[c].hit => cpuBoard'[c].hit ]_vars

C13_Witness ==
  /\ last.op = "cpuFire" /\ computerShots = 2
  /\ Cardinality({ c \in Coords : playerBoard[c].hit }) = 2
  /\ Cardinality({ c \in Coords : cpuBoard[c].hit }) = 1

\* C14: every ship of both fleets has between 0 and size hits.
C14_HitsWithinSize ==
  /\ \A i \in DOMAIN playerShips : 0 <= playerShips[i].hits /\ playerShips[i].hits <= playerShips[i].size
  /\ \A i \in DOMAIN cpuShips : 0 <= cpuShips[i].hits /\ cpuShips[i].hits <= cpuShips[i].size

C14_Witness ==
  /\ \E i \in DOMAIN cpuShips : cpuShips[i].hits = cpuShips[i].size
  /\ \E i \in DOMAIN cpuShips : cpuShips[i].hits < cpuShips[i].size
  /\ last.op = "playerFire" /\ last.result = "repeat"

\* a board and its fleet refer to each other consistently
Consistent(board, ships) ==
  /\ \A c \in Coords : board[c].hasShip <=> board[c].shipId # 0
  /\ \A c \in Coords : board[c].hasShip => board[c].shipId \in DOMAIN ships
  /\ \A i \in DOMAIN ships : ships[i].id = i
  /\ \A i \in DOMAIN ships :
       LET cells == { c \in Coords : board[c].shipId = i } IN
       /\ Cardinality(cells) = ships[i].size
       /\ \E a \in Coords, h \in BOOLEAN :
            /\ cells = ShipCells(a[1], a[2], ships[i].size, h)
            /\ cells \subseteq Coords

\* C15: on each side a cell has a ship id iff it is occupied, every id on the
\* board is the id of a ship of the fleet, ids are unique, and each ship is
\* referenced by exactly size cells in a line inside the board.
C15_BoardFleetConsistent ==
  Consistent(playerBoard, playerShips) /\ Consistent(cpuBoard, cpuShips)

C15_Witness ==
  /\ Cardinality(DOMAIN playerShips) = Len(SHIP_SIZES)
  /\ \E i \in DOMAIN playerShips : playerShips[i].hits > 0
  /\ \E i \in DOMAIN cpuShips : cpuShips[i].hits > 0

\* C16: after newGame, whatever the state it was called in, it is the
\* player's turn, the game is in progress, both shot counters are 0, no cell
\* of either board is fired and no ship has a hit.
C16_NewGameResets ==
  last.op = "newGame" =>
    /\ playerTurn /\ gameOver = "null"
    /\ playerShots = 0 /\ computerShots = 0
    /\ \A c \in Coords : ~playerBoard[c].hit /\ ~cpuBoard[c].hit
    /\ \A i \in DOMAIN playerShips : playerShips[i].hits = 0
    /\ \A i \in DOMAIN cpuShips : cpuShips[i].hits = 0

C16_Witness ==
  /\ last.op = "newGame" /\ BagCardinality(timers) = 2 /\ playerTurn

\* C17: a CPU shot always lands on a cell that was unfired on the player
\* board it is applied to, so it is never a repeat, and every unfired cell of
\* that board can be the one it lands on.
C17_CpuTargetsUnfired ==
  /\ [][ CpuShotStep =>
           /\ last'.result \in Definitive
           /\ \E c \in Coords :
                /\ ~playerBoard[c].hit /\ playerBoard'[c].hit
                /\ \A d \in Coords \ {c} : playerBoard'[d] = playerBoard[d] ]_vars
  /\ [](\A c \in Coords :
          (timers # EmptyBag /\ playerShots + computerShots < MaxShots /\ ~playerBoard[c].hit)
            => ENABLED (TimerFires /\ playerBoard'[c].hit))

C17_Witness ==
  /\ last.op = "cpuFire" /\ last.stale /\ last.result \in Definitive
  /\ computerShots = 2 /\ timers # EmptyBag

\* C18: while the game is in progress and a CPU shot is pending, the player
\* board has an unfired cell; the branch of cpuFire for an empty candidate
\* list is never the one taken in a game in progress.
C18_CandidatesNonEmpty ==
  /\ (gameOver = "null" /\ timers # EmptyBag) => Candidates(playerBoard) # {}
  /\ (last.op = "cpuFire" /\ last.result = "none") => gameOver # "null"

C18_Witness ==
  /\ gameOver = "null" /\ timers # EmptyBag
  /\ Cardinality(Candidates(playerBoard)) = 1

\* C19: a call of playerFire at a coordinate outside the board returns repeat
\* or does nothing: it raises no exception and leaves boards, fleets, turn
\* and outcome as they were.
C19_OutOfBoundsRecovered ==
  [][ \A c \in OutsideCoords :
        playerFire(c[1], c[2]) =>
          /\ last'.result \in {"repeat", "rejected"}
          /\ UNCHANGED <<playerBoard, cpuBoard, playerShips, cpuShips, playerTurn, gameOver>> ]_vars

\* C20: whether the insert of saveGameResult succeeds, returns an error or
\* throws, its end changes no board, fleet, turn, outcome or counter, and a
\* newGame after it starts a game like any other: player's turn, in
\* progress, counters at 0, nothing fired.
C20_SaveLeavesGameAlone ==
  /\ [][ last'.op = "insertSettled"
           => UNCHANGED <<playerBoard, cpuBoard, playerShips, cpuShips, playerTurn,
                          gameOver, playerShots, computerShots>> ]_vars
  /\ [][ (last'.op = "newGame" /\ \E k \in DOMAIN saved : saved[k].status # "pending")
           => /\ playerTurn' /\ gameOver' = "null"
              /\ playerShots' = 0 /\ computerShots' = 0
              /\ \A c \in Coords : ~playerBoard'[c].hit /\ ~cpuBoard'[c].hit ]_vars

C20_Witness ==
  /\ last.op = "insertSettled" /\ last.result = "thrown" /\ gameOver = "cpu"
  /\ \E k \in DOMAIN saved : saved[k].status = "thrown"

\* C21: playerFire on the player's turn, in a game in progress, at a cell of
\* the CPU board that is already fired changes nothing: CPU board, CPU
\* fleet, turn, outcome and the player's shot counter stay as they were and
\* no CPU shot is scheduled.
C21_RepeatIsNoOp ==
  [][ (last'.op = "playerFire" /\ last'.result = "repeat")
        => UNCHANGED <<cpuBoard, cpuShips, playerTurn, gameOver, playerShots, timers>> ]_vars

\* the boards differ in the fired flag of cell c and in nothing else
OnlyFiredAt(before, after, c) ==
  /\ ~before[c].hit /\ after[c].hit
  /\ after[c].hasShip = before[c].hasShip /\ after[c].shipId = before[c].shipId
  /\ \A d \in Coords \ {c} : after[d] = before[d]

ShotFrame(board, ships) ==
  \A c \in Coords :
    LET r == registerHit(board, ships, c[1], c[2]) IN
    r.result # "repeat" =>
      /\ OnlyFiredAt(board, r.board, c)
      /\ DOMAIN r.ships = DOMAIN ships
      /\ \A j \in DOMAIN ships : j # board[c].shipId => r.ships[j] = ships[j]

\* C22: a registerHit that is not a repeat returns a board that differs from
\* the one it was given in the fired flag of the target cell only, and a
\* fleet with the same ships in which only the ship of that cell may differ.
C22_RegisterHitFrame ==
  ShotFrame(playerBoard, playerShips) /\ ShotFrame(cpuBoard, cpuShips)

C22_Witness ==
  /\ \E c \in Coords : playerBoard[c].hit /\ playerBoard[c].hasShip
  /\ \E c \in Coords : playerBoard[c].hit /\ ~playerBoard[c].hasShip
  /\ \E c \in Coords : cpuBoard[c].hit /\ cpuBoard[c].hasShip

\* C23: a player shot leaves the player's board, the player's fleet and the
\* CPU's shot counter alone; a CPU firing step leaves the CPU board, the CPU
\* fleet and the player's shot counter alone.
C23_ShotFrames ==
  /\ [][ last'.op = "playerFire" => UNCHANGED <<playerBoard, playerShips, computerShots>> ]_vars
  /\ [][ last'.op = "cpuFire" => UNCHANGED <<cpuBoard, cpuShips, playerShots>> ]_vars

C23_Witness ==
  /\ last.op = "cpuFire" /\ last.result = "hit"
  /\ playerShots = 2 /\ computerShots = 1
  /\ \E c \in Coords : cpuBoard[c].hit /\ cpuBoard[c].hasShip

FiredCellsOf(board, i) == { c \in Coords : board[c].shipId = i /\ board[c].hit }

HitsMatchBoard(board, ships) ==
  \A i \in DOMAIN ships :
    /\ ships[i].hits = Cardinality(FiredCellsOf(board, i))
    /\ (ships[i].hits = ships[i].size
          <=> \A c \in Coords : board[c].shipId = i => board[c].hit)

\* C24: for each ship of each fleet, hits is the number of fired cells of
\* that side's board that carry the ship's id, so a ship has hits = size
\* exactly when every one of its cells is fired.
C24_HitsAreFiredCells ==
  HitsMatchBoard(playerBoard, playerShips) /\ HitsMatchBoard(cpuBoard, cpuShips)

C24_Witness ==
  /\ last.op = "playerFire" /\ last.result = "repeat"
  /\ \E i \in DOMAIN cpuShips : cpuShips[i].hits = 1 /\ cpuShips[i].size = 2
  /\ playerShots = 2

\* C25: when every scheduled timer fires and newGame is not called, a CPU
\* turn in a game in progress is followed by the player's turn or by the end
\* of the game: the chain of CPU shots ends.
C25_CpuChainEnds ==
  (~playerTurn /\ gameOver = "null") ~> (playerTurn \/ gameOver # "null")

C25_Witness ==
  /\ ~playerTurn /\ gameOver = "null"
  /\ last.op = "cpuFire" /\ last.result = "hit" /\ computerShots = 2

\* C26: whenever it is the CPU's turn in a game in progress, a CPU shot is
\* pending.
C26_NeverLockedOut ==
  (~playerTurn /\ gameOver = "null") => timers # EmptyBag

C26_Witness ==
  /\ ~playerTurn /\ gameOver = "null" /\ last.op = "cpuFire" /\ last.stale
  /\ BagCardinality(timers) = 1

\* C27: at most one CPU shot is pending at any time, and a CPU shot is
\* applied only when it is the CPU's turn in a game in progress.
C27_OneShotPending ==
  /\ [](BagCardinality(timers) <= 1)
  /\ [][ CpuShotStep => (~playerTurn /\ gameOver = "null") ]_vars

\* C28: in part_000, within a chain of CPU shots every cell fired by an
\* earlier shot of the chain is still fired on the player board and every
\* hit of the chain is still counted in the player's fleet.
C28_ChainAccumulates ==
  /\ \A c \in chain : playerBoard[c].hit
  /\ \A i \in DOMAIN playerShips :
       playerShips[i].hits >= Cardinality({ c \in chain : playerBoard[c].shipId = i })

\* C29: in part_000, once the CPU has fired at every occupied cell of the
\* player's board the game is over and the CPU has won.
C29_CpuCanWin ==
  (\A c \in Coords : playerBoard[c].hasShip => c \in chain) => gameOver = "cpu"

====
